---- MODULE Spec2Model ----
(***************************************************************************)
(* Model of the wampy client engine.                                       *)
(*                                                                         *)
(*   src/wampy/peer.py           the monolithic Peer: handshake, the       *)
(*                               reader green thread, the dispatcher       *)
(*                               (_handle_message), the shared Registry    *)
(*                               maps and the one-slot _message_queue.     *)
(*   src/wampy/peers/clients.py  the Client facade over Session; Session   *)
(*                               and MessageHandler themselves are not     *)
(*                               part of the sources.                      *)
(*                                                                         *)
(* A WAMP message (a Python list) is a record: code is the message kind,   *)
(* len the number of elements of the list (tuple unpacking in the          *)
(* dispatcher depends on it), f1/f2 the id fields, args/kw the positional  *)
(* and named payload.                                                      *)
(***************************************************************************)
EXTENDS Integers, Sequences, FiniteSets, TLC

\* Bounds of the model.
MaxOps == 3            \* public operations the application performs
MaxUnsolicited == 2    \* messages the Router sends that answer no request

VARIABLES
    \* ---- Peer (src/wampy/peer.py)
    connection,        \* self._connection: "None" or "open"
    readerPc,          \* the reader green thread: none / run / putting / dead / killed
    readerErr,         \* the exception that ended the reader ("none" while it lives)
    pending,           \* the message the reader is blocked putting into the full queue
    queue,             \* self._message_queue (eventlet.Queue(maxsize=1))
    session,           \* self.session: NoSession or the session id
    request_map,       \* Registry.request_map: request id -> <<class, name>>
    registration_map,  \* Registry.registration_map: registration id -> <<class, name>>
    subscription_map,  \* Registry.subscription_map: subscription id -> <<class, name>>
    client_registry,   \* Registry.client_registry holds this client
    appPc,             \* where the application thread is
    entryIdx,          \* index of the entrypoint _register_entrypoints is at
    outcome,           \* how the last public operation ended
    response,          \* the message the last _wait_for_message returned
    nextReq,           \* next request id a message constructor hands out
    ops,               \* public operations performed so far
    \* ---- the Router and the application code (environment)
    wire,              \* frames sent by the Router, not yet read by the reader
    sent,              \* frames the client sent, in order
    answered,          \* indexes of `sent` the Router has replied to
    unsol,             \* unsolicited messages the Router has sent
    invoked,           \* calls of local procedures and event handlers, in order
    \* ---- Client (src/wampy/peers/clients.py)
    cPc,               \* where the thread using the Client is
    cSession,          \* self._session: [live |-> it is a Session, id |-> its id or NoSession]
    cConnected,        \* the transport holds a live connection
    cResponse,         \* WAMP_CODE of the response session.begin() returned
    cOutcome,          \* how the last Client operation ended
    cSecret,           \* 'WAMPYSECRET' in os.environ
    cPhase,            \* handshake progress inside Session.begin / Session.end
    cSent,             \* messages the Client's session sent, in order
    cOps,              \* Client operations performed so far
    \* ---- further green threads of the Peer (src/wampy/peer.py)
    app2Pc,            \* where a second application green thread is
    req2,              \* request id of the second thread's CALL
    response2,         \* the message _wait_for_message returned to the second thread
    nested,            \* the INVOCATION whose procedure is waiting for a reply of its own
    nestedReq          \* request id of the CALL that procedure sent

pvars == <<connection, readerPc, readerErr, pending, queue, session, request_map,
           registration_map, subscription_map, client_registry, appPc, entryIdx,
           outcome, response, nextReq, ops, wire, sent, answered, unsol, invoked>>
cvars == <<cPc, cSession, cConnected, cResponse, cOutcome, cSecret, cPhase, cSent, cOps>>
tvars == <<app2Pc, req2, response2, nested, nestedReq>>
vars == <<pvars, cvars, tvars>>

----------------------------------------------------------------------------
\* Messages

Msg(code, len, f1, f2, args, kw) ==
    [code |-> code, len |-> len, f1 |-> f1, f2 |-> f2, args |-> args, kw |-> kw,
     reason |-> ""]

NoMsg == Msg("NONE", 0, 0, 0, <<>>, <<>>)

\* Messages the client builds (the constructors hand out the request id).
Hello == Msg("HELLO", 3, 0, 0, <<>>, <<>>)
Goodbye == [Msg("GOODBYE", 3, 0, 0, <<>>, <<>>) EXCEPT !.reason = "wamp.close.normal"]
Register(r) == Msg("REGISTER", 4, r, 0, <<>>, <<>>)
Subscribe(r) == Msg("SUBSCRIBE", 4, r, 0, <<>>, <<>>)
Call(r) == Msg("CALL", 6, r, 0, <<>>, <<>>)
Yield(r, result_args) == Msg("YIELD", 4, r, 0, result_args, <<>>)

\* The application class: one rpc entrypoint and one subscriber entrypoint.
AppClass == "App"
Entrypoints == << [kind |-> "rpc", name |-> "proc"],
                  [kind |-> "subscriber", name |-> "on_event"] >>

\* self.session = None (session ids are positive)
NoSession == 0

Range(f) == {f[x] : x \in DOMAIN f}
Put(map, k, v) == (k :> v) @@ map

----------------------------------------------------------------------------
\* Peer: the application thread (src/wampy/peer.py)

PeerInit ==
    /\ connection = "None"
    /\ readerPc = "none"
    /\ readerErr = "none"
    /\ pending = NoMsg
    /\ queue = <<>>
    /\ session = NoSession
    /\ request_map = <<>>
    /\ registration_map = <<>>
    /\ subscription_map = <<>>
    /\ client_registry = FALSE
    /\ appPc = "idle"
    /\ entryIdx = 0
    /\ outcome = "none"
    /\ response = NoMsg
    /\ nextReq = 1
    /\ ops = 0
    /\ wire = <<>>
    /\ sent = <<>>
    /\ answered = {}
    /\ unsol = 0
    /\ invoked = <<>>

\* The waits that run inside `with eventlet.Timeout(5)`.
TimedWaits == {"wait_session", "reg_wait", "sub_wait"}
\* The waits in _wait_for_message, which has no Timeout around it.
QueueWaits == {"call_wait", "stop_wait"}

\* send_message: the frame goes out on the connection.
SendMessage(m) == sent' = Append(sent, m)

\* The loop body of _register_entrypoints for entrypoint i: record the request
\* in Registry.request_map, send REGISTER / SUBSCRIBE and start the wait; past
\* the last entrypoint, record the client in client_registry and return.
BeginEntrypoint(i) ==
    IF i > Len(Entrypoints)
    THEN /\ client_registry' = TRUE
         /\ appPc' = "idle"
         /\ outcome' = "started"
         /\ entryIdx' = i
         /\ UNCHANGED <<request_map, nextReq, sent>>
    ELSE /\ request_map' = Put(request_map, nextReq, <<AppClass, Entrypoints[i].name>>)
         /\ SendMessage(IF Entrypoints[i].kind = "rpc"
                        THEN Register(nextReq) ELSE Subscribe(nextReq))
         /\ nextReq' = nextReq + 1
         /\ appPc' = IF Entrypoints[i].kind = "rpc" THEN "reg_wait" ELSE "sub_wait"
         /\ entryIdx' = i
         /\ UNCHANGED <<client_registry, outcome>>

\* start(): _connect_to_router (ConnectionError when the connection fails),
\* spawn the reader, say HELLO, then wait for the session.
Start ==
    /\ appPc = "idle" /\ connection = "None" /\ ops < MaxOps
    /\ ops' = ops + 1
    /\ \E connected \in BOOLEAN :
         IF connected
         THEN /\ connection' = "open"
              /\ readerPc' = "run"
              /\ SendMessage(Hello)
              /\ appPc' = "wait_session"
              /\ UNCHANGED outcome
         ELSE /\ outcome' = "ConnectionError"
              /\ UNCHANGED <<connection, readerPc, sent, appPc>>
    /\ UNCHANGED <<readerErr, pending, queue, session, request_map, registration_map,
                   subscription_map, client_registry, entryIdx, response, nextReq,
                   wire, answered, unsol, invoked, cvars, tvars>>

\* SessionReady with start() not waiting for the session.
SessionReady_NoWait ==
    /\ appPc = "wait_session"
    /\ BeginEntrypoint(1)
    /\ UNCHANGED <<connection, readerPc, readerErr, pending, queue, session,
                   registration_map, subscription_map, response, ops, wire,
                   answered, unsol, invoked, cvars, tvars>>

\* wait_for_session sees self.session set; start() goes on to
\* _register_entrypoints.
SessionReady ==
    /\ appPc = "wait_session" /\ session # NoSession
    /\ BeginEntrypoint(1)
    /\ UNCHANGED <<connection, readerPc, readerErr, pending, queue, session,
                   registration_map, subscription_map, response, ops, wire,
                   answered, unsol, invoked, cvars, tvars>>

\* The registration wait sees (class, name) among registration_map.values().
RegistrationSeen ==
    /\ appPc = "reg_wait"
    /\ <<AppClass, Entrypoints[entryIdx].name>> \in Range(registration_map)
    /\ BeginEntrypoint(entryIdx + 1)
    /\ UNCHANGED <<connection, readerPc, readerErr, pending, queue, session,
                   registration_map, subscription_map, response, ops, wire,
                   answered, unsol, invoked, cvars, tvars>>

\* The subscription wait sees (class, name) among subscription_map.values().
SubscriptionSeen ==
    /\ appPc = "sub_wait"
    /\ <<AppClass, Entrypoints[entryIdx].name>> \in Range(subscription_map)
    /\ BeginEntrypoint(entryIdx + 1)
    /\ UNCHANGED <<connection, readerPc, readerErr, pending, queue, session,
                   registration_map, subscription_map, response, ops, wire,
                   answered, unsol, invoked, cvars, tvars>>

\* eventlet.Timeout(5) fires inside one of the timed waits: start() raises
\* Timeout and nothing else changes.
TimeoutFires ==
    /\ appPc \in TimedWaits
    /\ appPc' = "idle"
    /\ outcome' = "Timeout"
    /\ UNCHANGED <<connection, readerPc, readerErr, pending, queue, session,
                   request_map, registration_map, subscription_map, client_registry,
                   entryIdx, response, nextReq, ops, wire, sent, answered, unsol,
                   invoked, cvars, tvars>>

\* A remote call: send the CALL, then wait for a message on the queue.
MakeRpc ==
    /\ appPc = "idle" /\ connection # "None" /\ ops < MaxOps
    /\ ops' = ops + 1
    /\ SendMessage(Call(nextReq))
    /\ nextReq' = nextReq + 1
    /\ appPc' = "call_wait"
    /\ UNCHANGED <<connection, readerPc, readerErr, pending, queue, session,
                   request_map, registration_map, subscription_map, client_registry,
                   entryIdx, outcome, response, wire, answered, unsol, invoked, cvars, tvars>>

\* _wait_for_message leaves its loop (qsize() > 0) and q.get() hands the
\* message to the caller of recv_message.
RecvMessage ==
    /\ appPc = "call_wait" /\ Len(queue) > 0
    /\ response' = Head(queue)
    /\ queue' = Tail(queue)
    /\ appPc' = "idle"
    /\ outcome' = "returned"
    /\ UNCHANGED <<connection, readerPc, readerErr, pending, session, request_map,
                   registration_map, subscription_map, client_registry, entryIdx,
                   nextReq, ops, wire, sent, answered, unsol, invoked, cvars, tvars>>

\* stop(): say GOODBYE, then wait for a message on the queue.
Stop ==
    /\ appPc = "idle" /\ connection # "None" /\ ops < MaxOps
    /\ ops' = ops + 1
    /\ SendMessage(Goodbye)
    /\ appPc' = "stop_wait"
    /\ UNCHANGED <<connection, readerPc, readerErr, pending, queue, session,
                   request_map, registration_map, subscription_map, client_registry,
                   entryIdx, outcome, response, nextReq, wire, answered, unsol,
                   invoked, cvars, tvars>>

\* stop() gets its message: the assert on GOODBYE, then the reader is killed
\* and the session dropped.
StopFinish ==
    /\ appPc = "stop_wait" /\ Len(queue) > 0
    /\ response' = Head(queue)
    /\ queue' = Tail(queue)
    /\ appPc' = "idle"
    /\ IF Head(queue).code = "GOODBYE"
       THEN /\ readerPc' = IF readerPc = "dead" THEN "dead" ELSE "killed"
            /\ pending' = NoMsg
            /\ session' = NoSession
            /\ outcome' = "stopped"
       ELSE /\ outcome' = "AssertionError"
            /\ UNCHANGED <<readerPc, pending, session>>
    /\ UNCHANGED <<connection, readerErr, request_map, registration_map,
                   subscription_map, client_registry, entryIdx, nextReq, ops, wire,
                   sent, answered, unsol, invoked, cvars, tvars>>

----------------------------------------------------------------------------
\* Peer: the reader green thread and the dispatcher (src/wampy/peer.py)

\* eventlet.Queue(maxsize=1)
QueueMaxSize == 1

\* An exception leaves _handle_message: connection_handler catches only
\* SystemExit and KeyboardInterrupt, so the green thread ends.
ReaderDies(err) ==
    /\ readerPc' = "dead"
    /\ readerErr' = err

\* self._message_queue.put(message): blocks the reader while the queue is full.
QueuePut(m) ==
    IF Len(queue) < QueueMaxSize
    THEN /\ queue' = Append(queue, m)
         /\ UNCHANGED <<readerPc, readerErr, pending>>
    ELSE /\ readerPc' = "putting"
         /\ pending' = m
         /\ UNCHANGED <<queue, readerErr>>

\* The application's procedure or handler, called with the arguments: what it
\* returns when it returns.
EntrypointResult(name, args, kw) == Len(args) + Len(kw)

\* HandleRegistered with the entry stored under the request id instead of the
\* registration id.
HandleRegistered_KeyedByRequest(m) ==
    IF m.f1 \in DOMAIN request_map
    THEN /\ registration_map' = Put(registration_map, m.f1, request_map[m.f1])
         /\ UNCHANGED <<readerPc, readerErr, pending, queue, session,
                        subscription_map, sent, invoked>>
    ELSE /\ ReaderDies("KeyError")
         /\ UNCHANGED <<pending, queue, session, registration_map,
                        subscription_map, sent, invoked>>

\* REGISTERED: [REGISTERED, request id, registration id]
HandleRegistered(m) ==
    IF m.f1 \in DOMAIN request_map
    THEN /\ registration_map' = Put(registration_map, m.f2, request_map[m.f1])
         /\ UNCHANGED <<readerPc, readerErr, pending, queue, session,
                        subscription_map, sent, invoked>>
    ELSE /\ ReaderDies("KeyError")
         /\ UNCHANGED <<pending, queue, session, registration_map,
                        subscription_map, sent, invoked>>

\* SUBSCRIBED: [SUBSCRIBED, request id, subscription id]
HandleSubscribed(m) ==
    IF m.f1 \in DOMAIN request_map
    THEN /\ subscription_map' = Put(subscription_map, m.f2, request_map[m.f1])
         /\ UNCHANGED <<readerPc, readerErr, pending, queue, session,
                        registration_map, sent, invoked>>
    ELSE /\ ReaderDies("KeyError")
         /\ UNCHANGED <<pending, queue, session, registration_map,
                        subscription_map, sent, invoked>>

\* INVOCATION: unpack 4, 5 or 6 elements, look the procedure up by its
\* registration id, call it, send YIELD(request id, [resp]).
HandleInvocation(m, raises) ==
    IF m.len \notin {4, 5, 6}
    THEN /\ ReaderDies("ValueError")
         /\ UNCHANGED <<pending, queue, session, registration_map,
                        subscription_map, sent, invoked>>
    ELSE IF m.f2 \notin DOMAIN registration_map
    THEN /\ ReaderDies("KeyError")
         /\ UNCHANGED <<pending, queue, session, registration_map,
                        subscription_map, sent, invoked>>
    ELSE LET args == IF m.len >= 5 THEN m.args ELSE <<>>
             kwargs == IF m.len = 6 THEN m.kw ELSE <<>>
             procedure_name == registration_map[m.f2][2]
         IN /\ invoked' = Append(invoked, [name |-> procedure_name, args |-> args,
                                           kw |-> kwargs, raised |-> raises])
            /\ IF raises
               THEN /\ ReaderDies("Exception")
                    /\ UNCHANGED sent
               ELSE /\ SendMessage(Yield(m.f1,
                           <<EntrypointResult(procedure_name, args, kwargs)>>))
                    /\ UNCHANGED <<readerPc, readerErr>>
            /\ UNCHANGED <<pending, queue, session, registration_map,
                           subscription_map>>

\* GOODBYE: [GOODBYE, details, reason]; the assert on the reason, then the
\* message goes to the queue.
HandleGoodbye(m) ==
    IF m.reason # "wamp.close.normal"
    THEN /\ ReaderDies("AssertionError")
         /\ UNCHANGED <<pending, queue, session, registration_map,
                        subscription_map, sent, invoked>>
    ELSE /\ QueuePut(m)
         /\ UNCHANGED <<session, registration_map, subscription_map, sent, invoked>>

\* HandleResult with the RESULT logged and not put on the queue.
HandleResult_NotQueued(m) ==
    IF m.len # 4
    THEN /\ ReaderDies("ValueError")
         /\ UNCHANGED <<pending, queue, session, registration_map,
                        subscription_map, sent, invoked>>
    ELSE UNCHANGED <<readerPc, readerErr, pending, queue, session,
                     registration_map, subscription_map, sent, invoked>>

\* RESULT: [RESULT, request id, details, results]; response_list[0] is read
\* for the log, then the message goes to the queue.
HandleResult(m) ==
    IF m.len # 4
    THEN /\ ReaderDies("ValueError")
         /\ UNCHANGED <<pending, queue, session, registration_map,
                        subscription_map, sent, invoked>>
    ELSE IF Len(m.args) = 0
    THEN /\ ReaderDies("IndexError")
         /\ UNCHANGED <<pending, queue, session, registration_map,
                        subscription_map, sent, invoked>>
    ELSE /\ QueuePut(m)
         /\ UNCHANGED <<session, registration_map, subscription_map, sent, invoked>>

\* WELCOME: [WELCOME, session id, details]
HandleWelcome(m) ==
    /\ session' = m.f1
    /\ UNCHANGED <<readerPc, readerErr, pending, queue, registration_map,
                   subscription_map, sent, invoked>>

\* ERROR: six elements are unpacked, then WampError is raised in the reader.
HandleError(m) ==
    /\ ReaderDies(IF m.len = 6 THEN "WampError" ELSE "ValueError")
    /\ UNCHANGED <<pending, queue, session, registration_map, subscription_map,
                   sent, invoked>>

\* EVENT: six elements (payload list and dict) or four (no payload); the
\* handler is looked up by subscription id and called; nothing is sent.
HandleEvent(m, raises) ==
    IF m.len \notin {4, 6}
    THEN /\ ReaderDies("ValueError")
         /\ UNCHANGED <<pending, queue, session, registration_map,
                        subscription_map, sent, invoked>>
    ELSE IF m.f1 \notin DOMAIN subscription_map
    THEN /\ ReaderDies("KeyError")
         /\ UNCHANGED <<pending, queue, session, registration_map,
                        subscription_map, sent, invoked>>
    ELSE LET payload_list == IF m.len = 6 THEN m.args ELSE <<>>
             payload_dict == IF m.len = 6 THEN m.kw ELSE <<>>
             func_name == subscription_map[m.f1][2]
         IN /\ invoked' = Append(invoked, [name |-> func_name, args |-> payload_list,
                                           kw |-> payload_dict, raised |-> raises])
            /\ IF raises
               THEN ReaderDies("Exception")
               ELSE UNCHANGED <<readerPc, readerErr>>
            /\ UNCHANGED <<pending, queue, session, registration_map,
                           subscription_map, sent>>

\* Any other message: a warning is logged.
HandleUnhandled(m) ==
    UNCHANGED <<readerPc, readerErr, pending, queue, session, registration_map,
                subscription_map, sent, invoked>>

\* _handle_message: the dispatch on message[0].
HandleMessage(m, raises) ==
    CASE m.code = "REGISTERED" -> HandleRegistered(m)
      [] m.code = "INVOCATION" -> HandleInvocation(m, raises)
      [] m.code = "GOODBYE" -> HandleGoodbye(m)
      [] m.code = "RESULT" -> HandleResult(m)
      [] m.code = "WELCOME" -> HandleWelcome(m)
      [] m.code = "ERROR" -> HandleError(m)
      [] m.code = "SUBSCRIBED" -> HandleSubscribed(m)
      [] m.code = "EVENT" -> HandleEvent(m, raises)
      [] OTHER -> HandleUnhandled(m)

\* Whether handling m calls application code (which may raise).
CallsEntrypoint(m) ==
    \/ m.code = "INVOCATION" /\ m.len \in {4, 5, 6} /\ m.f2 \in DOMAIN registration_map
    \/ m.code = "EVENT" /\ m.len \in {4, 6} /\ m.f1 \in DOMAIN subscription_map

\* One turn of connection_handler: read a frame and handle it.
ReaderStep ==
    /\ readerPc = "run" /\ Len(wire) > 0
    /\ wire' = Tail(wire)
    /\ \E raises \in (IF CallsEntrypoint(Head(wire)) THEN BOOLEAN ELSE {FALSE}) :
         HandleMessage(Head(wire), raises)
    /\ UNCHANGED <<connection, request_map, client_registry, appPc, entryIdx,
                   outcome, response, nextReq, ops, answered, unsol, cvars, tvars>>

\* The queue has room again: the reader's blocked put completes.
ReaderPutResumes ==
    /\ readerPc = "putting" /\ Len(queue) < QueueMaxSize
    /\ queue' = Append(queue, pending)
    /\ pending' = NoMsg
    /\ readerPc' = "run"
    /\ UNCHANGED <<connection, readerErr, session, request_map, registration_map,
                   subscription_map, client_registry, appPc, entryIdx, outcome,
                   response, nextReq, ops, wire, sent, answered, unsol, invoked, cvars, tvars>>

----------------------------------------------------------------------------
\* The Router

Welcome(sid) == Msg("WELCOME", 3, sid, 0, <<>>, <<>>)
Abort == Msg("ABORT", 3, 0, 0, <<>>, <<>>)
Registered(r, g) == Msg("REGISTERED", 3, r, g, <<>>, <<>>)
Subscribed(r, g) == Msg("SUBSCRIBED", 3, r, g, <<>>, <<>>)
Result(r) == Msg("RESULT", 4, r, 0, <<3>>, <<>>)
Error(r, len) == Msg("ERROR", len, r, 0, IF len = 6 THEN <<1>> ELSE <<>>, <<>>)
RouterGoodbye(reason) == [Msg("GOODBYE", 3, 0, 0, <<>>, <<>>) EXCEPT !.reason = reason]
\* The three payload shapes of INVOCATION and EVENT.
Payload(code, len, f1, f2) ==
    Msg(code, len, f1, f2, IF len >= 5 THEN <<1, 2>> ELSE <<>>,
                           IF len = 6 THEN <<7>> ELSE <<>>)

\* What the Router may answer to a message of the client.
Replies(m) ==
    CASE m.code = "HELLO" -> {Welcome(1), Abort}
      [] m.code = "REGISTER" -> {Registered(m.f1, 11)}
      [] m.code = "SUBSCRIBE" -> {Subscribed(m.f1, 21)}
      [] m.code = "CALL" -> {Result(m.f1), Error(m.f1, 5), Error(m.f1, 6)}
      [] m.code = "GOODBYE" -> {RouterGoodbye("wamp.close.normal"),
                                RouterGoodbye("wamp.close.goodbye_and_out")}
      [] OTHER -> {}

\* What the Router may send on its own; k numbers its requests. 11 and 21 are
\* the registration and subscription ids it hands out, 12 is an id it never
\* handed out.
Unsolicited(k) ==
    {Payload("INVOCATION", len, k, 11) : len \in {4, 5, 6}}
    \cup {Payload("INVOCATION", 4, k, 12)}
    \cup {Payload("EVENT", len, 21, k) : len \in {4, 5, 6}}
    \cup {RouterGoodbye("wamp.close.normal")}

\* The Router's frame reaches the socket when the previous one has been read:
\* frames are read in the order sent, so holding a frame back until then
\* changes nothing the client can observe.
WireFree == Len(wire) = 0

\* The Router answers one message of the client.
RouterReplies ==
    /\ WireFree
    /\ \E i \in (1..Len(sent)) \ answered :
         /\ Replies(sent[i]) # {}
         /\ \E m \in Replies(sent[i]) : wire' = Append(wire, m)
         /\ answered' = answered \cup {i}
    /\ UNCHANGED <<connection, readerPc, readerErr, pending, queue, session,
                   request_map, registration_map, subscription_map, client_registry,
                   appPc, entryIdx, outcome, response, nextReq, ops, sent, unsol,
                   invoked, cvars, tvars>>

\* The Router sends an INVOCATION, an EVENT or closes the session.
RouterSends ==
    /\ connection = "open" /\ WireFree /\ unsol < MaxUnsolicited
    /\ unsol' = unsol + 1
    /\ \E m \in Unsolicited(unsol + 1) : wire' = Append(wire, m)
    /\ UNCHANGED <<connection, readerPc, readerErr, pending, queue, session,
                   request_map, registration_map, subscription_map, client_registry,
                   appPc, entryIdx, outcome, response, nextReq, ops, sent, answered,
                   invoked, cvars, tvars>>

\* A second green thread of the application calls on the same Peer:
\* send_message(CALL), then recv_message. Nothing in send_message,
\* recv_message or _wait_for_message takes a lock.
MakeRpc2 ==
    /\ app2Pc = "idle" /\ connection # "None"
    /\ SendMessage(Call(nextReq))
    /\ req2' = nextReq
    /\ nextReq' = nextReq + 1
    /\ app2Pc' = "call_wait"
    /\ UNCHANGED <<connection, readerPc, readerErr, pending, queue, session,
                   request_map, registration_map, subscription_map, client_registry,
                   appPc, entryIdx, outcome, response, ops, wire, answered, unsol,
                   invoked, cvars, response2, nested, nestedReq>>

\* The second thread's _wait_for_message finds qsize() > 0 and q.get() hands
\* it the message.
RecvMessage2 ==
    /\ app2Pc = "call_wait" /\ Len(queue) > 0
    /\ response2' = Head(queue)
    /\ queue' = Tail(queue)
    /\ app2Pc' = "done"
    /\ UNCHANGED <<connection, readerPc, readerErr, pending, session, request_map,
                   registration_map, subscription_map, client_registry, appPc,
                   entryIdx, outcome, response, nextReq, ops, wire, sent, answered,
                   unsol, invoked, cvars, req2, nested, nestedReq>>

\* The reader handles an INVOCATION whose procedure makes a call of its own:
\* getattr(self, procedure_name)(...) runs inside _handle_message, in the
\* reader green thread, sends the CALL and enters _wait_for_message.
ProcedureCalls ==
    /\ readerPc = "run" /\ Len(wire) > 0
    /\ Head(wire).code = "INVOCATION" /\ Head(wire).len \in {4, 5, 6}
    /\ Head(wire).f2 \in DOMAIN registration_map
    /\ wire' = Tail(wire)
    /\ LET m == Head(wire)
           args == IF m.len >= 5 THEN m.args ELSE <<>>
           kwargs == IF m.len = 6 THEN m.kw ELSE <<>>
       IN invoked' = Append(invoked, [name |-> registration_map[m.f2][2],
                                      args |-> args, kw |-> kwargs, raised |-> FALSE])
    /\ SendMessage(Call(nextReq))
    /\ nestedReq' = nextReq
    /\ nextReq' = nextReq + 1
    /\ nested' = Head(wire)
    /\ readerPc' = "proc_wait"
    /\ UNCHANGED <<connection, readerErr, pending, queue, session, request_map,
                   registration_map, subscription_map, client_registry, appPc,
                   entryIdx, outcome, response, ops, answered, unsol, cvars,
                   app2Pc, req2, response2>>

\* The procedure's _wait_for_message finds a message on the queue; the
\* procedure returns and _handle_message sends the YIELD for the INVOCATION.
ProcedureGetsReply ==
    /\ readerPc = "proc_wait" /\ Len(queue) > 0
    /\ queue' = Tail(queue)
    /\ SendMessage(Yield(nested.f1,
           <<EntrypointResult(registration_map[nested.f2][2],
                              IF nested.len >= 5 THEN nested.args ELSE <<>>,
                              IF nested.len = 6 THEN nested.kw ELSE <<>>)>>))
    /\ nested' = NoMsg
    /\ readerPc' = "run"
    /\ UNCHANGED <<connection, readerErr, pending, session, request_map,
                   registration_map, subscription_map, client_registry, appPc,
                   entryIdx, outcome, response, nextReq, ops, wire, answered, unsol,
                   invoked, cvars, app2Pc, req2, response2, nestedReq>>

PeerNext ==
    \/ Start
    \/ SessionReady
    \/ RegistrationSeen
    \/ SubscriptionSeen
    \/ TimeoutFires
    \/ MakeRpc
    \/ RecvMessage
    \/ Stop
    \/ StopFinish
    \/ ReaderStep
    \/ ReaderPutResumes
    \/ RouterReplies
    \/ RouterSends

----------------------------------------------------------------------------
\* Client (src/wampy/peers/clients.py) over Session

NoClientSession == [live |-> FALSE, id |-> NoSession]

ClientInit ==
    /\ cPc = "idle"
    /\ cSession = NoClientSession
    /\ cConnected = FALSE
    /\ cResponse = "none"
    /\ cOutcome = "none"
    /\ cSecret \in BOOLEAN
    /\ cPhase = "none"
    /\ cSent = <<>>
    /\ cOps = 0

\* Client.start up to the call of session.begin(): the transport connects
\* (this raises on error), the Session is created and begin() says HELLO.
ClientStart ==
    /\ cPc = "idle" /\ ~cSession.live /\ cOps < MaxOps
    /\ cOps' = cOps + 1
    /\ \E connected \in BOOLEAN :
         IF connected
         THEN /\ cConnected' = TRUE
              /\ cSession' = [live |-> TRUE, id |-> NoSession]
              /\ cSent' = Append(cSent, "HELLO")
              /\ cPhase' = "hello_sent"
              /\ cPc' = "begin"
              /\ cResponse' = "none"
              /\ UNCHANGED cOutcome
         ELSE /\ cOutcome' = "ConnectionError"
              /\ UNCHANGED <<cConnected, cSession, cSent, cPhase, cPc, cResponse>>
    /\ UNCHANGED <<cSecret, pvars, tvars>>

\* Session.begin(): the Router answers HELLO with WELCOME (the session id is
\* recorded), ABORT or CHALLENGE; a CHALLENGE is answered with AUTHENTICATE
\* when the secret is configured and goes back to the caller when it is not.
SessionBegin ==
    /\ cPc = "begin" /\ cPhase = "hello_sent"
    /\ \E answer \in {"WELCOME", "ABORT", "CHALLENGE"}, sid \in {1, 2} :
         CASE answer = "WELCOME" ->
                /\ cSession' = [cSession EXCEPT !.id = sid]
                /\ cResponse' = "WELCOME"
                /\ cPhase' = "returned"
                /\ UNCHANGED cSent
           [] answer = "ABORT" ->
                /\ sid = 1
                /\ cResponse' = "ABORT"
                /\ cPhase' = "returned"
                /\ UNCHANGED <<cSession, cSent>>
           [] OTHER ->
                /\ sid = 1
                /\ IF cSecret
                   THEN /\ cSent' = Append(cSent, "AUTHENTICATE")
                        /\ cPhase' = "authenticating"
                        /\ UNCHANGED cResponse
                   ELSE /\ cResponse' = "CHALLENGE"
                        /\ cPhase' = "returned"
                        /\ UNCHANGED cSent
                /\ UNCHANGED cSession
    /\ UNCHANGED <<cPc, cConnected, cOutcome, cSecret, cOps, pvars, tvars>>

\* Session.begin() after AUTHENTICATE: success establishes the session,
\* failure is an ABORT, and an authentication that could not be carried out
\* leaves the CHALLENGE as the response.
SessionAuthenticate ==
    /\ cPc = "begin" /\ cPhase = "authenticating"
    /\ \E answer \in {"WELCOME", "ABORT", "CHALLENGE"}, sid \in {1, 2} :
         /\ cResponse' = answer
         /\ cSession' = IF answer = "WELCOME"
                        THEN [cSession EXCEPT !.id = sid] ELSE cSession
         /\ answer # "WELCOME" => sid = 1
    /\ cPhase' = "returned"
    /\ UNCHANGED <<cPc, cConnected, cOutcome, cSecret, cSent, cOps, pvars, tvars>>

\* The bounded wait inside begin() / end() runs out.
SessionTimeout ==
    /\ \/ cPc = "begin" /\ cPhase \in {"hello_sent", "authenticating"}
          /\ cOutcome' = "TimeoutError"
          /\ cPc' = "idle"
          /\ cPhase' = "none"
          /\ UNCHANGED <<cSession, cConnected>>
       \/ cPc = "end" /\ cPhase = "goodbye_sent"
          /\ cPhase' = "closed"
          /\ UNCHANGED <<cOutcome, cPc, cSession, cConnected>>
    /\ UNCHANGED <<cResponse, cSecret, cSent, cOps, pvars, tvars>>

\* ClientStartResponse with the ABORT branch missing: an ABORT response is
\* taken for a successful handshake.
ClientStartResponse_AbortIgnored ==
    /\ cPc = "begin" /\ cPhase = "returned"
    /\ cPc' = "idle"
    /\ cPhase' = "none"
    /\ cOutcome' =
         IF cResponse = "CHALLENGE"
         THEN IF ~cSecret THEN "WampyError: WAMPYSECRET required"
              ELSE "WampyError: Failed to handle CHALLENGE"
         ELSE "connected"
    /\ UNCHANGED <<cSession, cConnected, cResponse, cSecret, cSent, cOps, pvars, tvars>>

\* ClientStartResponse with the test for the secret left out of the CHALLENGE
\* branch.
ClientStartResponse_SecretUnchecked ==
    /\ cPc = "begin" /\ cPhase = "returned"
    /\ cPc' = "idle"
    /\ cPhase' = "none"
    /\ cOutcome' =
         IF cResponse = "ABORT" THEN "WelcomeAbortedError"
         ELSE IF cResponse = "CHALLENGE" THEN "WampyError: Failed to handle CHALLENGE"
         ELSE "connected"
    /\ UNCHANGED <<cSession, cConnected, cResponse, cSecret, cSent, cOps, pvars, tvars>>

\* Client.start after begin() returned: the branches on response.WAMP_CODE.
ClientStartResponse ==
    /\ cPc = "begin" /\ cPhase = "returned"
    /\ cPc' = "idle"
    /\ cPhase' = "none"
    /\ cOutcome' =
         IF cResponse = "ABORT" THEN "WelcomeAbortedError"
         ELSE IF cResponse = "CHALLENGE"
              THEN IF ~cSecret THEN "WampyError: WAMPYSECRET required"
                   ELSE "WampyError: Failed to handle CHALLENGE"
         ELSE "connected"
    /\ UNCHANGED <<cSession, cConnected, cResponse, cSecret, cSent, cOps, pvars, tvars>>

\* ClientStop with session.end() called for every session, with or without
\* an id.
ClientStop_EndsAlways ==
    /\ cPc = "idle" /\ cOps < MaxOps
    /\ cOps' = cOps + 1
    /\ IF cSession.live
       THEN /\ cSent' = Append(cSent, "GOODBYE")
            /\ cPhase' = "goodbye_sent"
            /\ cPc' = "end"
            /\ UNCHANGED <<cSession, cConnected, cOutcome>>
       ELSE /\ cConnected' = FALSE
            /\ cSession' = NoClientSession
            /\ cOutcome' = "stopped"
            /\ UNCHANGED <<cSent, cPhase, cPc>>
    /\ UNCHANGED <<cResponse, cSecret, pvars, tvars>>

\* Client.stop: session.end() when there is a session with an id, then the
\* transport disconnects and the session reference is cleared.
ClientStop ==
    /\ cPc = "idle" /\ cOps < MaxOps
    /\ cOps' = cOps + 1
    /\ IF cSession.live /\ cSession.id # NoSession
       THEN /\ cSent' = Append(cSent, "GOODBYE")
            /\ cPhase' = "goodbye_sent"
            /\ cPc' = "end"
            /\ UNCHANGED <<cSession, cConnected, cOutcome>>
       ELSE /\ cConnected' = FALSE
            /\ cSession' = NoClientSession
            /\ cOutcome' = "stopped"
            /\ UNCHANGED <<cSent, cPhase, cPc>>
    /\ UNCHANGED <<cResponse, cSecret, pvars, tvars>>

\* Session.end(): the Router's GOODBYE arrives.
SessionEnd ==
    /\ cPc = "end" /\ cPhase = "goodbye_sent"
    /\ cPhase' = "closed"
    /\ UNCHANGED <<cPc, cSession, cConnected, cResponse, cOutcome, cSecret, cSent,
                   cOps, pvars, tvars>>

\* Client.stop after session.end() returned.
ClientStopFinish ==
    /\ cPc = "end" /\ cPhase = "closed"
    /\ cConnected' = FALSE
    /\ cSession' = NoClientSession
    /\ cOutcome' = "stopped"
    /\ cPc' = "idle"
    /\ cPhase' = "none"
    /\ UNCHANGED <<cResponse, cSecret, cSent, cOps, pvars, tvars>>

\* Client.make_rpc: send the message, then session.recv_message().
ClientMakeRpc ==
    /\ cPc = "idle" /\ cSession.live /\ cOps < MaxOps
    /\ cOps' = cOps + 1
    /\ cSent' = Append(cSent, "CALL")
    /\ cPc' = "rpc"
    /\ UNCHANGED <<cSession, cConnected, cResponse, cOutcome, cSecret, cPhase, pvars, tvars>>

\* session.recv_message() returns the response, or raises (WampProtocolError
\* or another exception, both re-raised by make_rpc).
ClientRpcResponse ==
    /\ cPc = "rpc"
    /\ \E how \in {"returned", "WampProtocolError", "Exception"} : cOutcome' = how
    /\ cPc' = "idle"
    /\ UNCHANGED <<cSession, cConnected, cResponse, cSecret, cPhase, cSent, cOps,
                   pvars, tvars>>

ClientNext ==
    \/ ClientStart
    \/ SessionBegin
    \/ SessionAuthenticate
    \/ SessionTimeout
    \/ ClientStartResponse
    \/ ClientStop
    \/ SessionEnd
    \/ ClientStopFinish
    \/ ClientMakeRpc
    \/ ClientRpcResponse

----------------------------------------------------------------------------
\* Specifications

\* No further green thread has run.
ThreadsInit ==
    /\ app2Pc = "idle"
    /\ req2 = 0
    /\ response2 = NoMsg
    /\ nested = NoMsg
    /\ nestedReq = 0

\* The Peer with its Router; the Client is not used.
Init ==
    /\ PeerInit
    /\ ClientInit /\ cSecret = FALSE
    /\ ThreadsInit

Next == PeerNext

Spec == Init /\ [][Next]_vars

\* Two application green threads calling on one Peer.
ConcInit ==
    /\ PeerInit
    /\ ClientInit /\ cSecret = FALSE
    /\ ThreadsInit

\* The Router only answers here: it sends nothing on its own.
ConcNext ==
    \/ Start
    \/ SessionReady
    \/ RegistrationSeen
    \/ SubscriptionSeen
    \/ TimeoutFires
    \/ MakeRpc
    \/ RecvMessage
    \/ Stop
    \/ StopFinish
    \/ ReaderStep
    \/ ReaderPutResumes
    \/ RouterReplies
    \/ MakeRpc2
    \/ RecvMessage2

ConcSpec == ConcInit /\ [][ConcNext]_vars

\* A Peer whose procedure makes a call of its own while it is invoked.
ReentrantInit ==
    /\ PeerInit
    /\ ClientInit /\ cSecret = FALSE
    /\ ThreadsInit

ReentrantNext ==
    \/ PeerNext
    \/ ProcedureCalls
    \/ ProcedureGetsReply

ReentrantSpec == ReentrantInit /\ [][ReentrantNext]_vars

\* A Peer started in a process where another client of the same class has
\* already registered and subscribed: Registry's maps are class attributes, so
\* the other client's entries (requests 101 and 102, registration 12,
\* subscription 22) are in them.
SharedInit ==
    /\ connection = "None"
    /\ readerPc = "none"
    /\ readerErr = "none"
    /\ pending = NoMsg
    /\ queue = <<>>
    /\ session = NoSession
    /\ request_map = (101 :> <<AppClass, "proc">>) @@ (102 :> <<AppClass, "on_event">>)
    /\ registration_map = (12 :> <<AppClass, "proc">>)
    /\ subscription_map = (22 :> <<AppClass, "on_event">>)
    /\ client_registry = FALSE
    /\ appPc = "idle"
    /\ entryIdx = 0
    /\ outcome = "none"
    /\ response = NoMsg
    /\ nextReq = 1
    /\ ops = 0
    /\ wire = <<>>
    /\ sent = <<>>
    /\ answered = {}
    /\ unsol = 0
    /\ invoked = <<>>
    /\ ClientInit /\ cSecret = FALSE
    /\ ThreadsInit

SharedNext == PeerNext

SharedSpec == SharedInit /\ [][SharedNext]_vars

\* The Client with its Session; the Peer is not used.
ClientSpecInit ==
    /\ PeerInit
    /\ ClientInit
    /\ ThreadsInit

ClientSpec == ClientSpecInit /\ [][ClientNext]_vars

----------------------------------------------------------------------------
\* Properties

\* This step is the reader handling a message of the given kind.
ReaderHandles(code) ==
    /\ readerPc = "run" /\ Len(wire) > 0
    /\ wire' = Tail(wire)
    /\ Head(wire).code = code

\* C1: when the reader handles REGISTERED(r, g) for a request r recorded in
\* request_map, registration_map[g] becomes the (class, name) pair recorded
\* for r, and a registration wait blocked on that pair finds its condition
\* true.
C1_RegisteredResolves ==
    [][ (ReaderHandles("REGISTERED") /\ Head(wire).f1 \in DOMAIN request_map)
        => /\ Head(wire).f2 \in DOMAIN registration_map'
           /\ registration_map'[Head(wire).f2] = request_map[Head(wire).f1]
           /\ (appPc = "reg_wait"
               /\ request_map[Head(wire).f1] = <<AppClass, Entrypoints[entryIdx].name>>)
              => <<AppClass, Entrypoints[entryIdx].name>> \in Range(registration_map')
      ]_vars

\* C1 witness: the REGISTERED was handled and start() has moved past the
\* registration wait.
C1_Witness ==
    /\ appPc = "sub_wait"
    /\ 11 \in DOMAIN registration_map
    /\ registration_map[11] = <<AppClass, "proc">>

C3_ErrorReleasesCaller ==
    [][ (ReaderHandles("ERROR") /\ appPc = "call_wait" /\ Len(queue) = 0
         /\ Head(wire).f1 = nextReq - 1)
        => /\ Len(queue') > 0
           /\ Head(queue').code = "ERROR"
           /\ readerPc' = "run"
      ]_vars

\* C4: handling an INVOCATION whose registration id is not in
\* registration_map leaves the reader running.
C4_UnknownInvocationKeepsReader ==
    [][ (ReaderHandles("INVOCATION") /\ Head(wire).f2 \notin DOMAIN registration_map)
        => readerPc' = "run"
      ]_vars

\* C5: when the reader handles an EVENT whose subscription id is in
\* subscription_map, the subscribed handler is called once, with the EVENT's
\* positional and named payload, and nothing is sent.
C5_EventInvokesHandlerOnce ==
    [][ (ReaderHandles("EVENT") /\ Head(wire).f1 \in DOMAIN subscription_map)
        => /\ Len(invoked') = Len(invoked) + 1
           /\ SubSeq(invoked', 1, Len(invoked)) = invoked
           /\ invoked'[Len(invoked')].name = subscription_map[Head(wire).f1][2]
           /\ invoked'[Len(invoked')].args = Head(wire).args
           /\ invoked'[Len(invoked')].kw = Head(wire).kw
           /\ sent' = sent
      ]_vars

\* The application thread is in a wait whose condition is false.
Blocked ==
    \/ appPc = "wait_session" /\ session = NoSession
    \/ appPc = "reg_wait"
       /\ <<AppClass, Entrypoints[entryIdx].name>> \notin Range(registration_map)
    \/ appPc = "sub_wait"
       /\ <<AppClass, Entrypoints[entryIdx].name>> \notin Range(subscription_map)
    \/ appPc \in QueueWaits /\ Len(queue) = 0

\* C6: every blocked wait (for WELCOME, for the registration or subscription,
\* for a call's RESULT or ERROR, for stop's GOODBYE) can end by its timeout.
C6_EveryWaitTimesOut ==
    Blocked => ENABLED TimeoutFires

\* C7: stop() can always finish without the Router (a message is on the queue
\* or its wait can time out), and once it has ended the reader is stopped and
\* the session reference is cleared.
C7_StopAlwaysCloses ==
    /\ appPc = "stop_wait" => (Len(queue) > 0 \/ ENABLED TimeoutFires)
    /\ (appPc = "idle" /\ outcome \in {"stopped", "AssertionError"})
       => (readerPc \notin {"run", "putting"} /\ session = NoSession)

\* C8: when the reader handles an INVOCATION of a registered procedure it
\* sends exactly one reply carrying the INVOCATION's request id: the YIELD
\* with the procedure's return value as a one-element list, or, when the
\* procedure failed, an ERROR.
C8_InvocationAnswered ==
    [][ (ReaderHandles("INVOCATION") /\ Head(wire).f2 \in DOMAIN registration_map)
        => /\ Len(invoked') = Len(invoked) + 1
           /\ Len(sent') = Len(sent) + 1
           /\ SubSeq(sent', 1, Len(sent)) = sent
           /\ sent'[Len(sent')].f1 = Head(wire).f1
           /\ IF invoked'[Len(invoked')].raised
              THEN sent'[Len(sent')].code = "ERROR"
              ELSE sent'[Len(sent')] =
                     Yield(Head(wire).f1,
                           <<EntrypointResult(registration_map[Head(wire).f2][2],
                                              Head(wire).args, Head(wire).kw)>>)
      ]_vars

C10_ChallengeNeedsSecret ==
    [][ /\ (cPc = "begin" /\ cPhase = "returned" /\ cResponse = "CHALLENGE"
            /\ ~cSecret /\ cPc' # cPc)
           => cOutcome' = "WampyError: WAMPYSECRET required"
        /\ cSecret => cOutcome' # "WampyError: WAMPYSECRET required"
      ]_vars

\* C10 witness: with the secret configured, a CHALLENGE was answered with
\* AUTHENTICATE and start() ended with an established session.
C10_Witness ==
    /\ cSecret
    /\ \E i \in 1..Len(cSent) : cSent[i] = "AUTHENTICATE"
    /\ cPc = "idle" /\ cOutcome = "connected"
    /\ cSession.live /\ cSession.id # NoSession

\* The request ids of the CALLs sent so far.
CallIds == {sent[i].f1 : i \in {j \in 1..Len(sent) : sent[j].code = "CALL"}}

\* The request id of the first thread's latest CALL.
MainCallId ==
    LET ids == CallIds \ {req2}
    IN IF ids = {} THEN 0 ELSE CHOOSE r \in ids : \A q \in ids : q <= r

\* C11: two callers on one Peer never have their exchanges outstanding at the
\* same time, and a caller that is handed a RESULT is handed the one carrying
\* the request id of its own CALL.
C11_CallersSerialized ==
    [][ /\ ~ (appPc' = "call_wait" /\ app2Pc' = "call_wait")
        /\ (appPc = "call_wait" /\ appPc' = "idle" /\ response'.code = "RESULT")
           => response'.f1 = MainCallId
        /\ (app2Pc = "call_wait" /\ app2Pc' = "done" /\ response2'.code = "RESULT")
           => response2'.f1 = req2
      ]_vars

\* The Router's answer to the i-th message sent has been read and handled by
\* the reader.
ReplyProcessed(i) ==
    /\ i \in answered
    /\ \A j \in 1..Len(wire) : wire[j] \notin Replies(sent[i])

\* C12: the registration wait of start() ends (other than by its timeout)
\* only when the reader has handled the REGISTERED answering this wait's own
\* REGISTER, and the subscription wait only when it has handled the SUBSCRIBED
\* answering its own SUBSCRIBE.
C12_WaitNeedsOwnReply ==
    [][ /\ (appPc = "reg_wait" /\ appPc' # "reg_wait" /\ outcome' # "Timeout")
           => \E i \in 1..Len(sent) :
                sent[i] = Register(nextReq - 1) /\ ReplyProcessed(i)
        /\ (appPc = "sub_wait" /\ appPc' # "sub_wait" /\ outcome' # "Timeout")
           => \E i \in 1..Len(sent) :
                sent[i] = Subscribe(nextReq - 1) /\ ReplyProcessed(i)
      ]_vars

\* The reader reads the frame at the head of the connection and handles it.
ReaderTakes ==
    /\ readerPc = "run" /\ Len(wire) > 0
    /\ wire' = Tail(wire)

\* The step put m in the queue (or the reader is blocked in the put of m).
Delivered(m) ==
    \/ queue' = Append(queue, m) /\ pending' = pending
    \/ readerPc' = "putting" /\ pending' = m /\ queue' = queue

\* The step did the inline action of m's kind.
InlineAction(m) ==
    CASE m.code = "WELCOME" -> session' = m.f1
      [] m.code = "REGISTERED" ->
            m.f2 \in DOMAIN registration_map' /\ registration_map' # registration_map
      [] m.code = "SUBSCRIBED" ->
            m.f2 \in DOMAIN subscription_map' /\ subscription_map' # subscription_map
      [] m.code \in {"INVOCATION", "EVENT"} -> Len(invoked') = Len(invoked) + 1
      [] OTHER -> FALSE

\* The step did no inline action of any kind.
NothingInline ==
    UNCHANGED <<session, request_map, registration_map, subscription_map, sent, invoked>>

\* C13: handling WELCOME, REGISTERED, SUBSCRIBED, INVOCATION or EVENT does the
\* inline action and puts nothing in the queue; handling RESULT, GOODBYE or
\* ERROR puts the message in the queue and does nothing inline; handling any
\* other message changes no registry, session or queue state and sends
\* nothing.
C13_InlineOrDelivered ==
    [][ ReaderTakes =>
          LET m == Head(wire)
          IN CASE m.code \in {"WELCOME", "REGISTERED", "SUBSCRIBED", "INVOCATION", "EVENT"} ->
                    InlineAction(m) /\ queue' = queue /\ pending' = pending
               [] m.code \in {"RESULT", "GOODBYE", "ERROR"} ->
                    Delivered(m) /\ NothingInline
               [] OTHER ->
                    NothingInline /\ queue' = queue /\ pending' = pending
      ]_vars

\* This session's reader has handled a REGISTERED carrying registration id g.
RegisteredProcessed(g) ==
    \E i \in 1..Len(sent) :
        /\ sent[i].code = "REGISTER"
        /\ Registered(sent[i].f1, g) \in Replies(sent[i])
        /\ ReplyProcessed(i)

\* This session's reader has handled a SUBSCRIBED carrying subscription id g.
SubscribedProcessed(g) ==
    \E i \in 1..Len(sent) :
        /\ sent[i].code = "SUBSCRIBE"
        /\ Subscribed(sent[i].f1, g) \in Replies(sent[i])
        /\ ReplyProcessed(i)

\* C14: the reader takes frames from the head of the connection only, and
\* when handling an INVOCATION (an EVENT) calls a procedure (a handler), this
\* session's reader has before handled a REGISTERED (a SUBSCRIBED) carrying
\* the INVOCATION's registration id (the EVENT's subscription id).
C14_InvokedAfterOwnRegistered ==
    [][ /\ Len(wire') < Len(wire) => wire' = Tail(wire)
        /\ (ReaderTakes /\ Len(invoked') > Len(invoked))
           => IF Head(wire).code = "INVOCATION"
              THEN RegisteredProcessed(Head(wire).f2)
              ELSE SubscribedProcessed(Head(wire).f1)
      ]_vars

\* C15: when the procedure or handler called for an INVOCATION or EVENT
\* raises, the reader is still running after the message and can read the
\* next frame.
C15_EntrypointFailureContained ==
    [][ (ReaderTakes /\ Len(invoked') > Len(invoked) /\ invoked'[Len(invoked')].raised)
        => readerPc' = "run"
      ]_vars

\* C16: when the reader handles a GOODBYE, whatever its reason, the message
\* is put in the queue (so the wait of stop() finds it) and the reader goes
\* on.
C16_GoodbyeAlwaysQueued ==
    [][ (ReaderTakes /\ Head(wire).code = "GOODBYE")
        => Delivered(Head(wire)) /\ readerErr' = readerErr
      ]_vars

\* C17: while a procedure that the reader is running waits for the reply to
\* its own CALL, and the Router's RESULT for that CALL is the next frame on
\* the connection, the reader can read that frame (so the RESULT reaches the
\* queue, the procedure returns and the YIELD is sent).
C17_NestedCallCanBeAnswered ==
    (/\ readerPc = "proc_wait" /\ Len(queue) = 0
     /\ Len(wire) > 0 /\ Head(wire) = Result(nestedReq))
    => ENABLED ReaderStep

\* C18: every REGISTER or SUBSCRIBE sent whose answer has not been handled
\* has its request id in request_map, and handling the REGISTERED or
\* SUBSCRIBED for a request id in request_map removes that id from
\* request_map.
C18_RequestEntryConsumed ==
    [][ /\ \A i \in 1..Len(sent) :
             (sent[i].code \in {"REGISTER", "SUBSCRIBE"} /\ ~ReplyProcessed(i))
             => sent[i].f1 \in DOMAIN request_map
        /\ (ReaderTakes /\ Head(wire).code \in {"REGISTERED", "SUBSCRIBED"}
            /\ Head(wire).f1 \in DOMAIN request_map)
           => Head(wire).f1 \notin DOMAIN request_map'
      ]_vars

\* C19: the session becomes set only by the reader handling WELCOME; a
\* REGISTER or SUBSCRIBE is sent only when the session is set, and none has
\* been sent while start() waits for the session; when that wait ends by its
\* timeout, start() has sent no REGISTER and no SUBSCRIBE.
C19_NothingBeforeWelcome ==
    [][ /\ (session = NoSession /\ session' # NoSession)
           => (ReaderTakes /\ Head(wire).code = "WELCOME")
        /\ \A i \in 1..Len(sent') :
             (i > Len(sent) /\ sent'[i].code \in {"REGISTER", "SUBSCRIBE"})
             => session # NoSession
        /\ appPc' = "wait_session"
           => \A i \in 1..Len(sent') : sent'[i].code \notin {"REGISTER", "SUBSCRIBE"}
        /\ (appPc = "wait_session" /\ appPc' = "idle")
           => /\ outcome' = "Timeout"
              /\ \A i \in 1..Len(sent') : sent'[i].code \notin {"REGISTER", "SUBSCRIBE"}
      ]_vars

\* C19 witness: no WELCOME arrived, the handshake wait timed out and start()
\* has sent HELLO only.
C19_Witness ==
    /\ appPc = "idle" /\ outcome = "Timeout" /\ entryIdx = 0
    /\ session = NoSession
    /\ sent = <<Hello>>
    /\ readerPc = "run"

\* C20: whenever stop() gets a message from the queue, the message is a
\* GOODBYE and the assert in stop() passes.
C20_StopTakesGoodbye ==
    [][ (appPc = "stop_wait" /\ appPc' = "idle")
        => /\ response'.code = "GOODBYE"
           /\ outcome' # "AssertionError"
      ]_vars

\* start() has raised on an ABORT or CHALLENGE response and stop() has not
\* been called since.
FailedHandshakeHeld ==
    /\ cPc \in {"idle", "rpc"}
    /\ cResponse \in {"ABORT", "CHALLENGE"}
    /\ cSession.live

====
